---- MODULE Spec2Model ----
(***************************************************************************)
(* Model of crates/recast-detour-rs/src/lib.rs: the RecastQuery wrapper    *)
(* around the recastc navigation-mesh engine.                              *)
(*                                                                         *)
(*   - f32 values are encoded as integers: the finite values used by the   *)
(*     model are small integers, f32::MAX / f32::MIN are +-F32_MAX, the    *)
(*     infinities lie just outside them and NaN is a value of its own that *)
(*     the f32 operators below treat as IEEE-754 does.                     *)
(*   - The engine (the recastc_* functions of the sys crate) is external:  *)
(*     each call is a nondeterministic choice among its possible outcomes. *)
(*   - A thread is a caller; RecastQuery holds a NonNull<c_void>, so it is *)
(*     neither Send nor Sync and stays with the thread that created it.    *)
(***************************************************************************)
EXTENDS Integers, Sequences, FiniteSets, TLC

\* ------------------------------------------------------------------ bounds
MaxVerts == 2
MaxQueries == 2
MaxFinds == 2
MaxPath == 3

\* ------------------------------------------------------------- f32 values
F32_MAX == 1000000
F32_MIN == -F32_MAX
INFINITY == F32_MAX + 1
NEG_INFINITY == -INFINITY
NAN == F32_MAX + 2
U16_MAX == 65535

IsFinite(x) == x # NAN /\ x # INFINITY /\ x # NEG_INFINITY

\* IEEE-754 comparison: false as soon as one side is NaN.
f32_le(a, b) == a # NAN /\ b # NAN /\ a <= b

\* f32::min(self, other): the other argument when one of them is NaN.
f32_min_wrong(a, b) == IF a = NAN THEN b ELSE IF b = NAN THEN a ELSE IF a > b THEN a ELSE b
f32_min(a, b) == IF a = NAN THEN b ELSE IF b = NAN THEN a ELSE IF a < b THEN a ELSE b

\* f32::max(self, other): the other argument when one of them is NaN.
f32_max(a, b) == IF a = NAN THEN b ELSE IF b = NAN THEN a ELSE IF a > b THEN a ELSE b

\* a - b in f32. Finite model values other than +-F32_MAX are far below the
\* precision of f32::MAX, so they are absorbed when added to it.
f32_sub(a, b) ==
    IF a = NAN \/ b = NAN THEN NAN
    ELSE IF a = INFINITY THEN (IF b = INFINITY THEN NAN ELSE INFINITY)
    ELSE IF a = NEG_INFINITY THEN (IF b = NEG_INFINITY THEN NAN ELSE NEG_INFINITY)
    ELSE IF b = INFINITY THEN NEG_INFINITY
    ELSE IF b = NEG_INFINITY THEN INFINITY
    ELSE IF a = F32_MAX THEN (IF b = F32_MAX THEN 0 ELSE IF b = F32_MIN THEN INFINITY ELSE F32_MAX)
    ELSE IF a = F32_MIN THEN (IF b = F32_MIN THEN 0 ELSE IF b = F32_MAX THEN NEG_INFINITY ELSE F32_MIN)
    ELSE IF b = F32_MAX THEN F32_MIN
    ELSE IF b = F32_MIN THEN F32_MAX
    ELSE a - b

\* a / b in f32 for a finite b > 0 (a cell size); the quotient of two small
\* values keeps its integer part, which is all the cast below reads.
f32_div(a, b) ==
    IF a = NAN THEN NAN
    ELSE IF a = INFINITY \/ a = NEG_INFINITY \/ a = F32_MAX \/ a = F32_MIN THEN a
    ELSE IF a >= 0 THEN a \div b ELSE -((-a) \div b)

\* A cast that keeps the low 16 bits of the truncated value.
f32_as_u16_wrap(f) ==
    IF f = NAN THEN 0
    ELSE IF f = INFINITY \/ f = F32_MAX THEN U16_MAX
    ELSE IF f = NEG_INFINITY \/ f = F32_MIN THEN 0
    ELSE f % (U16_MAX + 1)

\* `f as u16`: truncates toward zero, saturates at the ends of the range,
\* NaN becomes 0.
f32_as_u16(f) ==
    IF f = NAN THEN 0
    ELSE IF f <= 0 THEN 0
    ELSE IF f >= U16_MAX THEN U16_MAX
    ELSE f

\* ------------------------------------------------------------- compute_bb
RECURSIVE bb_loop(_, _, _, _)
bb_loop(vertices, i, bmin, bmax) ==
    IF i > Len(vertices) THEN <<bmin, bmax>>
    ELSE bb_loop(vertices, i + 3,
                 <<f32_min(vertices[i], bmin[1]),
                   f32_min(vertices[i + 1], bmin[2]),
                   f32_min(vertices[i + 2], bmin[3])>>,
                 <<f32_max(vertices[i], bmax[1]),
                   f32_max(vertices[i + 1], bmax[2]),
                   f32_max(vertices[i + 2], bmax[3])>>)

compute_bb(vertices) ==
    bb_loop(vertices, 1, <<F32_MAX, F32_MAX, F32_MAX>>, <<F32_MIN, F32_MIN, F32_MIN>>)

\* ------------------------------------------------ world_unit_to_cell_unit
world_unit_to_cell_unit(f, bmin, cs) ==
    f32_as_u16(f32_max(f32_div(f32_sub(f, bmin), cs), 0))

\* ------------------------------------------------------------------ values
Threads == {1, 2}
MainThread == 1

\* A Point is a [f32; 3]; the wrapper only passes points through, so the
\* model needs no more than distinguishable values. ZeroPoint is
\* Default::default().
Points == {"pA", "pB"}
ZeroPoint == "p0"
\* The two points are interchangeable, so one choice of `start` stands for both.
Starts == {"pA"}
Radii == {"r"}

\* Polygon references written by the engine; 0 is the engine's "no polygon".
PolyRefs == {1, 2}

\* RecastNavError::zeros().msg() and the texts the engine may write.
stale_buffer == "engine: text of an earlier call"
zeros == ""
EngineMsgs == {"engine: e1"}

QueryIds == 1..MaxQueries
Handles == 1..MaxQueries
NullHandle == 0

\* Result<T>: Ok(val) or Err(kind(msg)).
NoResult == [tag |-> "none", val |-> ZeroPoint, msg |-> ""]
Ok(v) == [tag |-> "Ok", val |-> v, msg |-> ""]
Err(kind, m) == [tag |-> kind, val |-> ZeroPoint, msg |-> m]

\* Result<RecastQuery>: the Ok value is the identity of the new RecastQuery.
NoNewResult == [tag |-> "none", val |-> 0, msg |-> ""]
NewOk(id) == [tag |-> "Ok", val |-> id, msg |-> ""]
NewErr(kind, m) == [tag |-> kind, val |-> 0, msg |-> m]

NoFrame ==
    [q |-> 0, start |-> ZeroPoint, end |-> ZeroPoint, r |-> "r",
     start_p |-> ZeroPoint, start_poly |-> 0, end_p |-> ZeroPoint, end_poly |-> 0,
     path |-> <<>>, result |-> NoResult, trace |-> <<>>]

NoNew ==
    [data |-> <<>>, sys_data |-> <<>>, creates |-> 0, q |-> NullHandle, err |-> zeros,
     result |-> NoNewResult]

\* nfind counts the find_path calls made on the value, up to MaxFinds.
NoQuery == [st |-> "none", q |-> NullHandle, owner |-> 0, nfind |-> 0]

\* NavMeshData values handed to new_from_mesh.
Mesh(vs, is, cs) ==
    [vertices |-> vs, indices |-> is, walkable_height |-> 2, walkable_radius |-> 2,
     walkable_climb |-> 2, cell_size |-> cs, cell_height |-> 1]

EmptyMesh == Mesh(<<>>, <<>>, 1)
SquareMesh == Mesh(<<0, 0, 0, 100, 0, 0, 100, 0, 100, 0, 0, 100>>, <<0, 1, 2, 0, 2, 3>>, 1)
SlopeMesh == Mesh(<<-4, 1, 0, 5, -3, 7, 2, 9, -6>>, <<0, 1, 2>>, 2)
FarMesh == Mesh(<<0, 0, 0, 70000, 0, 0, 0, 0, 70000>>, <<0, 1, 2>>, 1)
MeshInputs == {EmptyMesh, SquareMesh, SlopeMesh, FarMesh}

\* ------------------------------------------------------------------- state
VARIABLES
    pc,         \* per thread: where the caller is
    fp,         \* per thread: the frame of its find_path call
    nm,         \* per thread: the frame of its new_from_mesh call
    queries,    \* the RecastQuery values: state, field q, holder, calls made
    created,    \* handles the engine has returned from recastc_create_query
    freeCalls,  \* per handle (null included): calls of recastc_free_query
    bbIn,       \* compute_bb driver: the vertices
    bbOut,      \* compute_bb driver: the result, <<>> before the call
    qIn,        \* world_unit_to_cell_unit driver: two world values, bmin, cs
    qOut        \* world_unit_to_cell_unit driver: the two results, <<>> before

vars == <<pc, fp, nm, queries, created, freeCalls, bbIn, bbOut, qIn, qOut>>
engineVars == <<pc, fp, nm, queries, created, freeCalls>>
\* The drivers of the pure functions, which the RecastQuery operations leave alone.
bbVars == <<bbIn, bbOut, qIn, qOut>>

InFlight == {"ResolveStartPoly", "ResolveEndPoly", "QueryCorridor", "ProjectOntoNext"}

\* ------------------------------------------------------- engine outcomes
\* recastc_create_query: a handle never returned before, or null and a text.
CreateOutcomes ==
    [ok : {TRUE}, msg : {zeros}] \cup [ok : {FALSE}, msg : EngineMsgs \cup {zeros}]

FreshHandle == Cardinality(created) + 1

\* recastc_find_nearest_point: res, the result struct, the error text.
NearestOutcomes ==
    [res : {1}, pos : Points, poly : PolyRefs \cup {0}, msg : {zeros}]
    \cup [res : {0}, pos : {ZeroPoint}, poly : {0, 1}, msg : EngineMsgs \cup {zeros}]

Paths(n) == UNION {[1..k -> PolyRefs] : k \in 0..n}

\* recastc_find_path: res, result.path[0..result.path_count], the error text.
PathOutcomes ==
    [res : {1}, path : Paths(MaxPath), msg : {zeros}]
    \cup [res : {0}, path : {<<>>, <<1>>}, msg : EngineMsgs \cup {zeros}]

\* recastc_find_closest_point: res, result.pos, the error text.
ClosestOutcomes ==
    [res : {1}, pos : Points, msg : {zeros}]
    \cup [res : {0}, pos : {ZeroPoint}, msg : EngineMsgs \cup {zeros}]

\* One engine call on the query's handle, as logged in the frame.
Call(op, h, in, out) == [op |-> op, h |-> h, live |-> freeCalls[h] = 0, in |-> in, out |-> out]

\* ----------------------------------------------------------- new_from_mesh
\* A loop that quantizes every axis against bmin[0].
cu_verts_axis0(data, bmin) ==
    [k \in 1..Len(data.vertices) |->
        world_unit_to_cell_unit(data.vertices[k], bmin[1], data.cell_size)]

\* The "World Unit to Cell Unit" loop: vertex i, axis j -> cu_verts[i + j].
cu_verts(data, bmin) ==
    [k \in 1..Len(data.vertices) |->
        world_unit_to_cell_unit(data.vertices[k], bmin[((k - 1) % 3) + 1], data.cell_size)]

\* sys::RecastNavMeshData as assembled for recastc_create_query.
sys_data(data) ==
    LET bb == compute_bb(data.vertices) IN
    [verts |-> cu_verts(data, bb[1]),
     vert_count |-> Len(data.vertices) \div 3,
     indices |-> data.indices,
     triangles_count |-> Len(data.indices) \div 3,
     bmin |-> bb[1],
     bmax |-> bb[2],
     walkable_height |-> data.walkable_height,
     walkable_radius |-> data.walkable_radius,
     walkable_climb |-> data.walkable_climb,
     cell_size |-> data.cell_size,
     cell_height |-> data.cell_height]

\* ptr::NonNull::new(p).ok_or(CreateQueryError(err.msg())): None for null.
wrap_always(p, msg) == [some |-> TRUE, q |-> p, msg |-> msg]
wrap_handle(p, msg) ==
    IF p = NullHandle THEN [some |-> FALSE, q |-> NullHandle, msg |-> msg]
    ELSE [some |-> TRUE, q |-> p, msg |-> msg]

NewQueryId == Cardinality({i \in QueryIds : queries[i].st # "none"}) + 1

new_from_mesh(t, data, out) ==
    /\ pc[t] = "idle"
    /\ out.ok => Cardinality(created) < MaxQueries
    /\ LET err == out.msg   \* the zeroed buffer, as the engine left it
           p == IF out.ok THEN FreshHandle ELSE NullHandle
           w == wrap_handle(p, err)
       IN /\ created' = IF out.ok THEN created \cup {p} ELSE created
          /\ IF w.some
                THEN /\ queries' = [queries EXCEPT ![NewQueryId] =
                                        [st |-> "live", q |-> w.q, owner |-> t, nfind |-> 0]]
                     /\ nm' = [nm EXCEPT ![t] =
                                  [data |-> data, sys_data |-> sys_data(data), creates |-> 1,
                                   q |-> p, err |-> err, result |-> NewOk(NewQueryId)]]
                ELSE /\ queries' = queries
                     /\ nm' = [nm EXCEPT ![t] =
                                  [data |-> data, sys_data |-> sys_data(data), creates |-> 1,
                                   q |-> p, err |-> err,
                                   result |-> NewErr("CreateQueryError", w.msg)]]
    /\ pc' = [pc EXCEPT ![t] = "NewEnd"]
    /\ UNCHANGED <<fp, freeCalls, bbVars>>

\* ------------------------------------------------------------------- Drop
Drop_leak(t, id) ==
    /\ pc[t] = "idle"
    /\ queries[id].st = "live"
    /\ queries[id].owner = t
    /\ queries' = [queries EXCEPT ![id].st = "dropped"]
    /\ UNCHANGED <<pc, fp, nm, created, freeCalls, bbVars>>

\* A drop that does not wait for the borrow of find_path(&self) to end.
Drop_racy(t, id) ==
    /\ pc[t] \notin {"NewEnd", "End"}
    /\ queries[id].st = "live"
    /\ queries[id].owner = t
    /\ freeCalls' = [freeCalls EXCEPT ![queries[id].q] = @ + 1]
    /\ queries' = [queries EXCEPT ![id].st = "dropped"]
    /\ UNCHANGED <<pc, fp, nm, created, bbVars>>

\* The holder discards the value: drop(&mut self) runs once, and only when
\* no borrow of the value is left, that is when its thread is in no call.
Drop(t, id) ==
    /\ pc[t] = "idle"
    /\ queries[id].st = "live"
    /\ queries[id].owner = t
    /\ freeCalls' = [freeCalls EXCEPT ![queries[id].q] = @ + 1]
    /\ queries' = [queries EXCEPT ![id].st = "dropped"]
    /\ UNCHANGED <<pc, fp, nm, created, bbVars>>

\* -------------------------------------------------------------- find_poly
find_poly_unchecked(out) ==
    IF out.res = 0 THEN Err("FindPointError", out.msg)
    ELSE Ok(<<out.pos, out.poly>>)

\* The fixed text returned for an engine failure as well.
find_poly_fixed_text(out) ==
    IF out.res = 0 \/ out.poly = 0 THEN Err("FindPointError", "No poly found")
    ELSE Ok(<<out.pos, out.poly>>)

find_poly(out) ==
    IF out.res = 0 THEN Err("FindPointError", out.msg)
    ELSE IF out.poly = 0 THEN Err("FindPointError", "No poly found")
    ELSE Ok(<<out.pos, out.poly>>)

nearest_input(pos, r) == [center |-> pos, half_extents |-> <<r, r, r>>]

\* ----------------------------------------------------------- find_closest
find_closest_as_path_error(out) ==
    IF out.res = 0 THEN Err("FindPathError", out.msg)
    ELSE Ok(out.pos)

find_closest(out) ==
    IF out.res = 0 THEN Err("FindPointError", out.msg)
    ELSE Ok(out.pos)

\* find_closest(start_p, path[1]): the input of recastc_find_closest_point.
closest_input_first(start_p, end_p, path) == [pos |-> start_p, poly |-> path[1]]
closest_input(start_p, end_p, path) == [pos |-> start_p, poly |-> path[2]]

\* -------------------------------------------------------------- find_path
\* The corridor stage of find_path, from the res check to the match on
\* path.len(): a result, or "closest" when find_closest is to be called.
Closest == [tag |-> "closest", val |-> ZeroPoint, msg |-> ""]

corridor_result_start(out, start_p, end_p) ==
    IF out.res = 0 THEN Err("FindPathError", out.msg)
    ELSE IF Len(out.path) = 0 THEN Err("FindPathError", "No Path")
    ELSE IF Len(out.path) = 1 THEN Ok(start_p)
    ELSE Closest

corridor_result_no_empty(out, start_p, end_p) ==
    IF out.res = 0 THEN Err("FindPathError", out.msg)
    ELSE IF Len(out.path) <= 1 THEN Ok(end_p)
    ELSE Closest

corridor_result(out, start_p, end_p) ==
    IF out.res = 0 THEN Err("FindPathError", out.msg)
    ELSE IF Len(out.path) = 0 THEN Err("FindPathError", "No Path")
    ELSE IF Len(out.path) = 1 THEN Ok(end_p)
    ELSE Closest

path_input(f) ==
    [start_poly |-> f.start_poly, start_pos |-> f.start_p,
     end_poly |-> f.end_poly, end_pos |-> f.end_p]

\* The caller enters find_path(&self, start, end, r) on a RecastQuery it holds.
find_path(t, id, start, end, r) ==
    /\ pc[t] = "idle"
    /\ queries[id].st = "live"
    /\ queries[id].owner = t
    /\ queries' = [queries EXCEPT ![id].nfind = IF @ < MaxFinds THEN @ + 1 ELSE @]
    /\ fp' = [fp EXCEPT ![t] = [NoFrame EXCEPT !.q = id, !.start = start, !.end = end, !.r = r]]
    /\ pc' = [pc EXCEPT ![t] = "ResolveStartPoly"]
    /\ UNCHANGED <<nm, created, freeCalls, bbVars>>

\* A lookup that is tried again after a failure instead of returning it.
ResolveStartPoly_retry(t, out) ==
    /\ pc[t] = "ResolveStartPoly"
    /\ Len(fp[t].trace) < 2
    /\ LET f == fp[t]
           c == Call("find_nearest_point", queries[f.q].q, nearest_input(f.start, f.r), out)
           res == find_poly(out)
       IN IF res.tag = "Ok"
            THEN /\ fp' = [fp EXCEPT ![t].start_p = res.val[1], ![t].start_poly = res.val[2],
                                      ![t].trace = Append(@, c)]
                 /\ pc' = [pc EXCEPT ![t] = "ResolveEndPoly"]
            ELSE /\ fp' = [fp EXCEPT ![t].trace = Append(@, c)]
                 /\ pc' = pc
    /\ UNCHANGED <<nm, queries, created, freeCalls, bbVars>>

\* let (start_p, start_poly) = self.find_poly(start, r)?;
ResolveStartPoly(t, out) ==
    /\ pc[t] = "ResolveStartPoly"
    /\ LET f == fp[t]
           c == Call("find_nearest_point", queries[f.q].q, nearest_input(f.start, f.r), out)
           res == find_poly(out)
       IN IF res.tag = "Ok"
            THEN /\ fp' = [fp EXCEPT ![t].start_p = res.val[1], ![t].start_poly = res.val[2],
                                      ![t].trace = Append(@, c)]
                 /\ pc' = [pc EXCEPT ![t] = "ResolveEndPoly"]
            ELSE /\ fp' = [fp EXCEPT ![t].result = res, ![t].trace = Append(@, c)]
                 /\ pc' = [pc EXCEPT ![t] = "End"]
    /\ UNCHANGED <<nm, queries, created, freeCalls, bbVars>>

\* let (end_p, end_poly) = self.find_poly(end, r)?;
ResolveEndPoly(t, out) ==
    /\ pc[t] = "ResolveEndPoly"
    /\ LET f == fp[t]
           c == Call("find_nearest_point", queries[f.q].q, nearest_input(f.end, f.r), out)
           res == find_poly(out)
       IN IF res.tag = "Ok"
            THEN /\ fp' = [fp EXCEPT ![t].end_p = res.val[1], ![t].end_poly = res.val[2],
                                      ![t].trace = Append(@, c)]
                 /\ pc' = [pc EXCEPT ![t] = "QueryCorridor"]
            ELSE /\ fp' = [fp EXCEPT ![t].result = res, ![t].trace = Append(@, c)]
                 /\ pc' = [pc EXCEPT ![t] = "End"]
    /\ UNCHANGED <<nm, queries, created, freeCalls, bbVars>>

\* recastc_find_path, the res check and the match on path.len().
QueryCorridor(t, out) ==
    /\ pc[t] = "QueryCorridor"
    /\ LET f == fp[t]
           c == Call("find_path", queries[f.q].q, path_input(f), out)
           res == corridor_result(out, f.start_p, f.end_p)
       IN IF res.tag = "closest"
            THEN /\ fp' = [fp EXCEPT ![t].path = out.path, ![t].trace = Append(@, c)]
                 /\ pc' = [pc EXCEPT ![t] = "ProjectOntoNext"]
            ELSE /\ fp' = [fp EXCEPT ![t].path = IF out.res = 0 THEN <<>> ELSE out.path,
                                      ![t].result = res, ![t].trace = Append(@, c)]
                 /\ pc' = [pc EXCEPT ![t] = "End"]
    /\ UNCHANGED <<nm, queries, created, freeCalls, bbVars>>

\* _ => self.find_closest(start_p, path[1])
ProjectOntoNext(t, out) ==
    /\ pc[t] = "ProjectOntoNext"
    /\ LET f == fp[t]
           c == Call("find_closest_point", queries[f.q].q,
                     closest_input(f.start_p, f.end_p, f.path), out)
       IN fp' = [fp EXCEPT ![t].result = find_closest(out), ![t].trace = Append(@, c)]
    /\ pc' = [pc EXCEPT ![t] = "End"]
    /\ UNCHANGED <<nm, queries, created, freeCalls, bbVars>>

\* The call returns to its caller, which takes the result; the frame goes.
Return(t) ==
    /\ pc[t] \in {"End", "NewEnd"}
    /\ pc' = [pc EXCEPT ![t] = "idle"]
    /\ fp' = [fp EXCEPT ![t] = NoFrame]
    /\ nm' = [nm EXCEPT ![t] = NoNew]
    /\ UNCHANGED <<queries, created, freeCalls, bbVars>>

\* ------------------------------------------------------- compute_bb driver
F32Samples == {NEG_INFINITY, -1, 2, INFINITY, NAN}

ComputeBB ==
    /\ bbOut = <<>>
    /\ bbOut' = compute_bb(bbIn)
    /\ UNCHANGED <<bbIn, qIn, qOut, engineVars>>

\* --------------------------------------- world_unit_to_cell_unit driver
WorldSamples == {NEG_INFINITY, -3, 0, 5, 60000, 70000, INFINITY, NAN}
BminSamples == {NEG_INFINITY, -3, 0, 5, INFINITY, NAN}
CellSizes == {1, 2}
NoQIn == [w1 |-> 0, w2 |-> 0, bmin |-> 0, cs |-> 1]

Quantize ==
    /\ qOut = <<>>
    /\ qOut' = <<world_unit_to_cell_unit(qIn.w1, qIn.bmin, qIn.cs),
                 world_unit_to_cell_unit(qIn.w2, qIn.bmin, qIn.cs)>>
    /\ UNCHANGED <<qIn, bbIn, bbOut, engineVars>>

\* --------------------------------------------------------- specifications
InitEngine ==
    /\ pc = [t \in Threads |-> "idle"]
    /\ fp = [t \in Threads |-> NoFrame]
    /\ nm = [t \in Threads |-> NoNew]
    /\ queries = [i \in QueryIds |-> NoQuery]
    /\ created = {}
    /\ freeCalls = [h \in Handles \cup {NullHandle} |-> 0]

Init ==
    /\ InitEngine
    /\ bbIn = <<>>
    /\ bbOut = <<>>
    /\ qIn = NoQIn
    /\ qOut = <<>>

\* One caller, as in the crate's tests.
Next ==
    \/ \E data \in MeshInputs, out \in CreateOutcomes : new_from_mesh(MainThread, data, out)
    \/ \E id \in QueryIds : Drop(MainThread, id)
    \/ \E id \in QueryIds, start \in Starts, end \in Points, r \in Radii :
          find_path(MainThread, id, start, end, r)
    \/ \E out \in NearestOutcomes : ResolveStartPoly(MainThread, out)
    \/ \E out \in NearestOutcomes : ResolveEndPoly(MainThread, out)
    \/ \E out \in PathOutcomes : QueryCorridor(MainThread, out)
    \/ \E out \in ClosestOutcomes : ProjectOntoNext(MainThread, out)
    \/ Return(MainThread)

Spec == Init /\ [][Next]_vars

\* compute_bb on every bounded vertex list.
InitBB ==
    /\ InitEngine
    /\ \E n \in 0..MaxVerts : bbIn \in [1..(3 * n) -> F32Samples]
    /\ bbOut = <<>>
    /\ qIn = NoQIn
    /\ qOut = <<>>

NextBB == ComputeBB

SpecBB == InitBB /\ [][NextBB]_vars

\* world_unit_to_cell_unit on every pair of sampled world values, for every
\* sampled axis minimum and cell size.
InitQ ==
    /\ InitEngine
    /\ bbIn = <<>>
    /\ bbOut = <<>>
    /\ qIn \in [w1 : WorldSamples, w2 : WorldSamples, bmin : BminSamples, cs : CellSizes]
    /\ qOut = <<>>

NextQ == Quantize

SpecQ == InitQ /\ [][NextQ]_vars

\* Two callers, each with the RecastQuery values it created, interleaved at
\* the engine calls; inputs and engine outcomes are a slice of Spec's.
ConcMeshes == {SquareMesh}
ConcCreate == {o \in CreateOutcomes : o.msg \in {zeros}}
ConcNearest == {o \in NearestOutcomes : o.pos \in {"pA", ZeroPoint} /\ o.poly \in {0, 1} /\ o.msg = zeros}
ConcPaths == {o \in PathOutcomes : o.msg = zeros /\ \A i \in 1..Len(o.path) : o.path[i] = 1}
ConcClosest == {o \in ClosestOutcomes : o.pos \in {"pB", ZeroPoint} /\ o.msg = zeros}

NextConc ==
    \E t \in Threads :
        \/ \E data \in ConcMeshes, out \in ConcCreate : new_from_mesh(t, data, out)
        \/ \E id \in QueryIds : Drop(t, id)
        \/ \E id \in QueryIds : find_path(t, id, "pA", "pB", "r")
        \/ \E out \in ConcNearest : ResolveStartPoly(t, out)
        \/ \E out \in ConcNearest : ResolveEndPoly(t, out)
        \/ \E out \in ConcPaths : QueryCorridor(t, out)
        \/ \E out \in ConcClosest : ProjectOntoNext(t, out)
        \/ Return(t)

SpecConc == Init /\ [][NextConc]_vars

\* ------------------------------------------------------------------ claims
\* Reading the engine-call log of a find_path frame.
Trace(t) == fp[t].trace
AtEnd(t) == pc[t] = "End"
NearestOk(c) == c.out.res # 0 /\ c.out.poly # 0
CorridorOk(t) == Len(Trace(t)) >= 3 /\ Trace(t)[3].out.res # 0
Corridor(t) == Trace(t)[3].out.path
StartSnapped(t) == Trace(t)[1].out.pos
EndSnapped(t) == Trace(t)[2].out.pos

\* C1: recastc_free_query is invoked on the handle of every RecastQuery
\* exactly once: not before the value is discarded, once when it is, and
\* never a second time, whatever number of find_path calls were made on it.
C1_ReleasedExactlyOnce ==
    /\ \A id \in QueryIds :
          /\ queries[id].st = "live" => freeCalls[queries[id].q] = 0
          /\ queries[id].st = "dropped" => freeCalls[queries[id].q] = 1
    /\ \A h \in Handles : freeCalls[h] <= 1

C1_Witness ==
    \E a \in QueryIds, b \in QueryIds :
        /\ queries[a].st = "dropped" /\ queries[a].nfind = 0
        /\ queries[b].st = "dropped" /\ queries[b].nfind = MaxFinds
        /\ freeCalls[queries[a].q] = 1 /\ freeCalls[queries[b].q] = 1

\* C2: with both lookups successful and a corridor of exactly one polygon,
\* find_path returns Ok(the position the nearest-point lookup of `end`
\* returned) and makes no closest-point call.
C2_SamePolyReturnsEnd ==
    \A t \in Threads :
        (AtEnd(t) /\ CorridorOk(t) /\ Len(Corridor(t)) = 1) =>
            /\ fp[t].result = Ok(EndSnapped(t))
            /\ Len(Trace(t)) = 3

C2_Witness ==
    \E t \in Threads :
        /\ AtEnd(t) /\ CorridorOk(t) /\ Len(Corridor(t)) = 1
        /\ fp[t].result.tag = "Ok"
        /\ fp[t].result.val = EndSnapped(t)
        /\ fp[t].result.val # StartSnapped(t)
        /\ fp[t].result.val # fp[t].end

\* C3: with both lookups successful and a corridor of two or more polygons,
\* find_path makes one closest-point call, on (start's snapped position,
\* corridor[1]), and returns that call's result: its point on success, a
\* FindPointError with its text on failure.
C3_MultiPolyProjects ==
    \A t \in Threads :
        (AtEnd(t) /\ CorridorOk(t) /\ Len(Corridor(t)) >= 2) =>
            /\ Len(Trace(t)) = 4
            /\ Trace(t)[4].op = "find_closest_point"
            /\ Trace(t)[4].in = [pos |-> StartSnapped(t), poly |-> Corridor(t)[2]]
            /\ fp[t].result = IF Trace(t)[4].out.res # 0
                                 THEN Ok(Trace(t)[4].out.pos)
                                 ELSE Err("FindPointError", Trace(t)[4].out.msg)

C3_Witness ==
    \E t \in Threads :
        /\ AtEnd(t) /\ CorridorOk(t) /\ Len(Corridor(t)) = 3
        /\ Corridor(t)[1] # Corridor(t)[2] /\ Corridor(t)[3] # Corridor(t)[2]
        /\ StartSnapped(t) # fp[t].start
        /\ Trace(t)[4].out.res # 0
        /\ fp[t].result = Ok(Trace(t)[4].out.pos)
        /\ fp[t].result.val # EndSnapped(t)
        /\ Trace(t)[4].in.pos = StartSnapped(t)
        /\ Trace(t)[4].in.poly = Corridor(t)[2]

\* C4: when the corridor query reports success with zero polygons,
\* find_path returns Err(FindPathError("No Path")), never Ok.
C4_EmptyCorridorFails ==
    \A t \in Threads :
        (AtEnd(t) /\ CorridorOk(t) /\ Len(Corridor(t)) = 0) =>
            fp[t].result = Err("FindPathError", "No Path")

C4_Witness ==
    \E t \in Threads :
        /\ AtEnd(t) /\ CorridorOk(t) /\ Len(Corridor(t)) = 0
        /\ NearestOk(Trace(t)[1]) /\ NearestOk(Trace(t)[2])
        /\ fp[t].result.tag = "FindPathError"
        /\ fp[t].result.msg = "No Path"

\* The outcome of the i-th nearest-point lookup of thread t, with `text`
\* the message of the polygon-reference-0 error: an engine failure gives
\* the engine's text whatever polygon was written, else polygon 0 gives
\* `text`, else the lookup yields (snapped position, polygon reference).
FindPolyOrder(t, i, text) ==
    LET c == Trace(t)[i]
        last == AtEnd(t) /\ Len(Trace(t)) = i
    IN IF c.out.res = 0
         THEN last /\ fp[t].result = Err("FindPointError", c.out.msg)
         ELSE IF c.out.poly = 0
                THEN last /\ fp[t].result = Err("FindPointError", text)
                ELSE IF i = 1
                       THEN fp[t].start_p = c.out.pos /\ fp[t].start_poly = c.out.poly
                       ELSE fp[t].end_p = c.out.pos /\ fp[t].end_poly = c.out.poly

CorridorNeverOnZero ==
    \A t \in Threads : \A i \in 1..Len(Trace(t)) :
        Trace(t)[i].op = "find_path" =>
            /\ Trace(t)[i].in.start_poly # 0
            /\ Trace(t)[i].in.end_poly # 0
            /\ Trace(t)[i].in.start_poly = Trace(t)[1].out.poly
            /\ Trace(t)[i].in.end_poly = Trace(t)[2].out.poly

\* C5 as stated: find_poly checks the engine failure first, then polygon
\* reference 0 with the error "no polygon found", else succeeds; the
\* corridor query is never invoked with a polygon reference 0.
C5_AsStated ==
    /\ \A t \in Threads : \A i \in 1..Len(Trace(t)) :
          i <= 2 => FindPolyOrder(t, i, "no polygon found")
    /\ CorridorNeverOnZero

\* C5 (amended): find_poly checks the engine failure first (error with the
\* engine's text, whatever polygon reference was written), then polygon
\* reference 0 (error "No poly found"), else succeeds with (snapped
\* position, polygon reference); the corridor query is never invoked with
\* a start or end polygon reference 0.
C5_FindPolyOrder ==
    /\ \A t \in Threads : \A i \in 1..Len(Trace(t)) :
          i <= 2 => FindPolyOrder(t, i, "No poly found")
    /\ CorridorNeverOnZero

C5_Witness ==
    \E t \in Threads :
        /\ AtEnd(t) /\ Len(Trace(t)) = 2
        /\ NearestOk(Trace(t)[1])
        /\ Trace(t)[2].out.res # 0 /\ Trace(t)[2].out.poly = 0
        /\ fp[t].result = Err("FindPointError", "No poly found")

PointStageFailed(t) ==
    \E i \in 1..Len(Trace(t)) :
        \/ Trace(t)[i].op = "find_nearest_point" /\ ~NearestOk(Trace(t)[i])
        \/ Trace(t)[i].op = "find_closest_point" /\ Trace(t)[i].out.res = 0

PathStageFailed(t) ==
    \E i \in 1..Len(Trace(t)) :
        /\ Trace(t)[i].op = "find_path"
        /\ (Trace(t)[i].out.res = 0 \/ Len(Trace(t)[i].out.path) = 0)

\* C6: an error of find_path is a FindPointError exactly when a
\* nearest-polygon lookup failed (engine failure or polygon reference 0) or
\* the closest-point lookup failed, a FindPathError exactly when the
\* corridor query failed or returned no polygon, never a CreateQueryError.
C6_ErrorsClassifiedByStage ==
    \A t \in Threads :
        AtEnd(t) =>
            /\ fp[t].result.tag \in {"Ok", "FindPointError", "FindPathError"}
            /\ (fp[t].result.tag = "FindPointError") <=> PointStageFailed(t)
            /\ (fp[t].result.tag = "FindPathError") <=> PathStageFailed(t)

C6_Witness ==
    \E t \in Threads :
        /\ AtEnd(t) /\ Len(Trace(t)) = 4
        /\ Trace(t)[4].op = "find_closest_point" /\ Trace(t)[4].out.res = 0
        /\ fp[t].result.tag = "FindPointError"
        /\ fp[t].result.msg = Trace(t)[4].out.msg

Existing == {id \in QueryIds : queries[id].st # "none"}

\* C7: construction is all-or-nothing. When recastc_create_query returns
\* null, new_from_mesh returns Err(CreateQueryError(the engine's text)), no
\* RecastQuery comes into existence and recastc_free_query is never invoked
\* on a null handle; when it returns a handle, new_from_mesh returns Ok
\* with a RecastQuery that owns exactly that handle.
C7_AllOrNothing ==
    /\ freeCalls[NullHandle] = 0
    /\ \A id \in Existing : queries[id].q # NullHandle
    /\ Cardinality(Existing) = Cardinality(created)
    /\ \A t \in Threads :
          pc[t] = "NewEnd" =>
              IF nm[t].q = NullHandle
                THEN nm[t].result = NewErr("CreateQueryError", nm[t].err)
                ELSE /\ nm[t].result.tag = "Ok"
                     /\ nm[t].result.val \in Existing
                     /\ queries[nm[t].result.val].q = nm[t].q
                     /\ queries[nm[t].result.val].st = "live"
                     /\ \A id \in Existing : queries[id].q = nm[t].q => id = nm[t].result.val

C7_Witness ==
    \E t \in Threads :
        /\ pc[t] = "NewEnd"
        /\ nm[t].q = NullHandle
        /\ nm[t].result.tag = "CreateQueryError"
        /\ nm[t].result.msg \in EngineMsgs
        /\ \E id \in QueryIds : queries[id].st = "dropped"
        /\ \E id \in QueryIds : queries[id].st = "none"

\* C8: no engine query operation is started on a handle whose release has
\* begun, and the release of a handle does not begin while a find_path
\* call on its RecastQuery is in flight.
C8_NoUseAfterRelease ==
    \A t \in Threads :
        /\ pc[t] \in InFlight \cup {"End"} =>
              /\ queries[fp[t].q].st = "live"
              /\ freeCalls[queries[fp[t].q].q] = 0
        /\ \A i \in 1..Len(Trace(t)) : Trace(t)[i].live

C8_Witness ==
    \E t \in Threads, u \in Threads :
        /\ t # u
        /\ pc[t] = "ProjectOntoNext"
        /\ Len(Trace(t)) = 3
        /\ queries[fp[t].q].st = "live"
        /\ pc[u] = "idle"
        /\ \E id \in QueryIds :
              /\ queries[id].owner = u
              /\ queries[id].st = "dropped"
              /\ queries[id].nfind > 0
              /\ freeCalls[queries[id].q] = 1

\* C9 as stated: given a NavMeshData with an empty vertex list,
\* new_from_mesh returns an error and does not call recastc_create_query.
C9_EmptyRejected ==
    \A t \in Threads :
        (pc[t] = "NewEnd" /\ Len(nm[t].data.vertices) = 0) =>
            /\ nm[t].result.tag # "Ok"
            /\ nm[t].creates = 0

VertexIdx(vs) == {k \in 1..Len(vs) : k % 3 = 1}

BoxEncloses(vs, bb) ==
    \A j \in 0..2 : \A k \in VertexIdx(vs) :
        f32_le(bb[1][j + 1], vs[k + j]) /\ f32_le(vs[k + j], bb[2][j + 1])

BoxAttained(vs, bb) ==
    \A j \in 0..2 :
        /\ \E k \in VertexIdx(vs) : vs[k + j] # NAN /\ vs[k + j] = bb[1][j + 1]
        /\ \E k \in VertexIdx(vs) : vs[k + j] # NAN /\ vs[k + j] = bb[2][j + 1]

\* C10 as stated: for every non-empty vertex list whose length is a
\* multiple of 3, compute_bb returns (min, max) with min <= c <= max for
\* every vertex coordinate c of each axis, and min and max each equal to
\* the coordinate of at least one vertex.
C10_AsStated ==
    (Len(bbOut) = 2 /\ Len(bbIn) > 0) =>
        BoxEncloses(bbIn, bbOut) /\ BoxAttained(bbIn, bbOut)

AllFinite(vs) == \A k \in 1..Len(vs) : IsFinite(vs[k])

\* C10 (amended): for every non-empty vertex list whose length is a
\* multiple of 3 and whose coordinates are all finite (no NaN, no
\* infinity), compute_bb returns (min, max) with min <= c <= max for every
\* vertex coordinate c of each axis, and min and max each equal to the
\* coordinate of at least one vertex.
C10_FiniteBoundingBox ==
    (Len(bbOut) = 2 /\ Len(bbIn) > 0 /\ AllFinite(bbIn)) =>
        BoxEncloses(bbIn, bbOut) /\ BoxAttained(bbIn, bbOut)

C10_Witness ==
    /\ Len(bbOut) = 2
    /\ Len(bbIn) = 6
    /\ AllFinite(bbIn)
    /\ bbIn[1] < bbIn[4] /\ bbIn[2] > bbIn[5] /\ bbIn[3] = bbIn[6]
    /\ bbOut[1] = <<bbIn[1], bbIn[5], bbIn[3]>>
    /\ bbOut[2] = <<bbIn[4], bbIn[2], bbIn[3]>>

\* C11: for a fixed axis minimum and a cell size > 0, the quantized value
\* is monotonic non-decreasing in the world value, it is >= 0 for every
\* world value >= the axis minimum, and a world value below the axis
\* minimum quantizes to 0, not to a large unsigned value.
C11_QuantizeMonotone ==
    Len(qOut) = 2 =>
        /\ f32_le(qIn.w1, qIn.w2) => qOut[1] <= qOut[2]
        /\ f32_le(qIn.w2, qIn.w1) => qOut[2] <= qOut[1]
        /\ f32_le(qIn.bmin, qIn.w1) => qOut[1] >= 0
        /\ f32_le(qIn.bmin, qIn.w2) => qOut[2] >= 0
        /\ (f32_le(qIn.w1, qIn.bmin) /\ qIn.w1 # qIn.bmin) => qOut[1] = 0
        /\ (f32_le(qIn.w2, qIn.bmin) /\ qIn.w2 # qIn.bmin) => qOut[2] = 0

C11_Witness ==
    /\ Len(qOut) = 2
    /\ qIn.bmin = 0 /\ qIn.cs = 2
    /\ qIn.w1 = -3 /\ qOut[1] = 0
    /\ qIn.w2 = 5 /\ qOut[2] = 2

\* floor(max(0, (world - bmin) / cell_size)) over the reals, for finite values.
ExactCell(w, bmin, cs) == IF w - bmin <= 0 THEN 0 ELSE (w - bmin) \div cs

\* C12 as stated: every quantized coordinate new_from_mesh hands to the
\* engine equals floor(max(0, (world - bmin_axis) / cell_size)) for its
\* vertex and axis and lies in 0..65535, however far the vertex is from
\* the bounding-box minimum.
C12_ExactAndInRange ==
    \A t \in Threads :
        pc[t] = "NewEnd" =>
            \A k \in 1..Len(nm[t].sys_data.verts) :
                /\ nm[t].sys_data.verts[k] \in 0..U16_MAX
                /\ nm[t].sys_data.verts[k] =
                      ExactCell(nm[t].data.vertices[k],
                                nm[t].sys_data.bmin[((k - 1) % 3) + 1],
                                nm[t].data.cell_size)

\* The stages of find_path in order, and whether the i-th call of thread t
\* let the next stage run.
Stages == <<"find_nearest_point", "find_nearest_point", "find_path", "find_closest_point">>

StageOk(t, i) ==
    IF i <= 2 THEN NearestOk(Trace(t)[i])
    ELSE IF i = 3 THEN Trace(t)[3].out.res # 0 /\ Len(Trace(t)[3].out.path) >= 2
    ELSE Trace(t)[4].out.res # 0

CallsMade(t) ==
    CASE pc[t] = "ResolveStartPoly" -> {0}
      [] pc[t] = "ResolveEndPoly" -> {1}
      [] pc[t] = "QueryCorridor" -> {2}
      [] pc[t] = "ProjectOntoNext" -> {3}
      [] pc[t] = "End" -> 1..4
      [] OTHER -> {0}

\* C13: within one find_path invocation the engine calls form a prefix of
\* [nearest-point(start), nearest-point(end), corridor query,
\* closest-point]: each stage at most once, a stage only after every
\* earlier stage succeeded (a failure, polygon reference 0 and an empty
\* corridor included, ends the call with an error and no further engine
\* call), and closest-point only for a corridor of length >= 2.
C13_CallsFormPrefix ==
    \A t \in Threads :
        /\ Len(Trace(t)) \in CallsMade(t)
        /\ \A i \in 1..Len(Trace(t)) :
              /\ Trace(t)[i].op = Stages[i]
              /\ i = 1 => Trace(t)[i].in.center = fp[t].start
              /\ i = 2 => Trace(t)[i].in.center = fp[t].end
              /\ i > 1 => StageOk(t, i - 1)
              /\ (i <= 2 /\ ~StageOk(t, i)) =>
                    (AtEnd(t) /\ i = Len(Trace(t)) /\ fp[t].result.tag # "Ok")
              /\ (i = 3 /\ Len(Trace(t)) = 3 /\ AtEnd(t)) => ~StageOk(t, 3)
              /\ (i = 3 /\ (Trace(t)[3].out.res = 0 \/ Len(Trace(t)[3].out.path) = 0)) =>
                    (AtEnd(t) /\ Len(Trace(t)) = 3 /\ fp[t].result.tag # "Ok")

C13_Witness ==
    \E t \in Threads :
        /\ AtEnd(t)
        /\ Len(Trace(t)) = 2
        /\ NearestOk(Trace(t)[1])
        /\ Trace(t)[2].out.res = 0
        /\ fp[t].result.tag = "FindPointError"

\* The least and greatest coordinate of axis j (0..2) of a non-empty list
\* of finite vertices.
AxisVals(vs, j) == {vs[k + j] : k \in VertexIdx(vs)}
AxisMin(vs, j) == CHOOSE m \in AxisVals(vs, j) : \A x \in AxisVals(vs, j) : m <= x
AxisMax(vs, j) == CHOOSE m \in AxisVals(vs, j) : \A x \in AxisVals(vs, j) : m >= x

\* C14: the payload new_from_mesh passes to recastc_create_query has
\* vert_count = len(vertices)/3 and triangles_count = len(indices)/3,
\* 3*vert_count quantized coordinates in the vertex and axis order of the
\* input, the input indices unchanged, the bounding box of the input
\* vertices (when there are any) in world units and the five agent and
\* cell parameters unchanged; the create operation is invoked exactly once
\* per new_from_mesh call.
C14_PayloadAssembled ==
    \A t \in Threads :
        pc[t] = "NewEnd" =>
            LET d == nm[t].data
                p == nm[t].sys_data
            IN /\ nm[t].creates = 1
               /\ 3 * p.vert_count = Len(d.vertices)
               /\ 3 * p.triangles_count = Len(d.indices)
               /\ Len(p.verts) = 3 * p.vert_count
               /\ p.indices = d.indices
               /\ Len(d.vertices) > 0 =>
                     /\ p.bmin = <<AxisMin(d.vertices, 0), AxisMin(d.vertices, 1),
                                    AxisMin(d.vertices, 2)>>
                     /\ p.bmax = <<AxisMax(d.vertices, 0), AxisMax(d.vertices, 1),
                                    AxisMax(d.vertices, 2)>>
               /\ \A k \in 1..Len(p.verts) :
                     p.verts[k] = world_unit_to_cell_unit(
                                      d.vertices[k], AxisMin(d.vertices, (k - 1) % 3),
                                      d.cell_size)
               /\ p.walkable_height = d.walkable_height
               /\ p.walkable_radius = d.walkable_radius
               /\ p.walkable_climb = d.walkable_climb
               /\ p.cell_size = d.cell_size
               /\ p.cell_height = d.cell_height

C14_Witness ==
    \E t \in Threads :
        /\ pc[t] = "NewEnd"
        /\ nm[t].data = SlopeMesh
        /\ nm[t].creates = 1
        /\ nm[t].sys_data.vert_count = 3
        /\ nm[t].sys_data.triangles_count = 1
        /\ nm[t].sys_data.bmin = <<-4, -3, -6>>
        /\ nm[t].sys_data.bmax = <<5, 9, 7>>
        /\ nm[t].sys_data.verts = <<0, 2, 3, 4, 0, 6, 3, 6, 0>>
        /\ nm[t].sys_data.indices = <<0, 1, 2>>

LiveOwners(h) == {id \in QueryIds : queries[id].st = "live" /\ queries[id].q = h}

NoLeakSharedDangling ==
    /\ \A h \in created : freeCalls[h] = 0 => Cardinality(LiveOwners(h)) = 1
    /\ \A id \in QueryIds :
          queries[id].st = "live" =>
              /\ queries[id].q # NullHandle
              /\ queries[id].q \in created
              /\ freeCalls[queries[id].q] = 0

HandleKept ==
    \A id \in QueryIds : queries[id].st # "none" => queries'[id].q = queries[id].q

\* C15: in every reachable state each handle created and not yet released
\* is owned by exactly one live RecastQuery, every live RecastQuery owns a
\* non-null handle that has not been released, and the handle of a
\* RecastQuery never changes from its construction on (find_path and Drop
\* leave it as it is): no leaked, shared or dangling handle.
C15_SingleOwner == [](NoLeakSharedDangling) /\ [][HandleKept]_vars

C15_Witness ==
    \E a \in QueryIds, b \in QueryIds :
        /\ queries[a].st = "dropped" /\ freeCalls[queries[a].q] = 1
        /\ queries[b].st = "live" /\ queries[b].nfind > 0
        /\ queries[b].q # queries[a].q
        /\ LiveOwners(queries[b].q) = {b}
        /\ LiveOwners(queries[a].q) = {}
        /\ pc[queries[b].owner] = "End"

FixedMsgs == {"No poly found", "No Path"}
LastCall(t) == Trace(t)[Len(Trace(t))]
\* What a call left for err.msg(): its text, or nothing in a zeroed buffer.
Written(m) == IF m \in EngineMsgs THEN m ELSE ""

\* C16: when an operation fails because an engine call reported failure,
\* the message of the returned error is the text that very call left in
\* its own, freshly zeroed buffer (empty when it wrote nothing), never a
\* text of an earlier call; the fixed messages "No poly found" and
\* "No Path" are returned only when the engine call reported success.
C16_MessageOfFailingCall ==
    \A t \in Threads :
        /\ (AtEnd(t) /\ LastCall(t).out.res = 0) =>
              /\ fp[t].result.tag \in {"FindPointError", "FindPathError"}
              /\ fp[t].result.msg = Written(LastCall(t).out.msg)
              /\ fp[t].result.msg \notin FixedMsgs
        /\ (AtEnd(t) /\ fp[t].result.msg = "No poly found") =>
              /\ LastCall(t).op = "find_nearest_point"
              /\ LastCall(t).out.res # 0
              /\ LastCall(t).out.poly = 0
        /\ (AtEnd(t) /\ fp[t].result.msg = "No Path") =>
              /\ LastCall(t).op = "find_path"
              /\ LastCall(t).out.res # 0
              /\ Len(LastCall(t).out.path) = 0
        /\ (pc[t] = "NewEnd" /\ nm[t].q = NullHandle) =>
              /\ nm[t].result.tag = "CreateQueryError"
              /\ nm[t].result.msg = Written(nm[t].err)
              /\ nm[t].result.msg \notin FixedMsgs

C16_Witness ==
    \E t \in Threads :
        /\ AtEnd(t)
        /\ Len(Trace(t)) = 3
        /\ Trace(t)[1].out.msg = zeros /\ Trace(t)[2].out.msg = zeros
        /\ Trace(t)[3].out.res = 0
        /\ Trace(t)[3].out.msg \in EngineMsgs
        /\ fp[t].result = Err("FindPathError", Trace(t)[3].out.msg)

====
